---- MODULE Spec2Model ----
(***************************************************************************)
(* A model of dutil::setting (include/setting.h): the key/value store, the *)
(* line ingestor, the interpolation engine (parse_once), the recursion     *)
(* controller (parse_recursive), the typed getters and the dumper.         *)
(*                                                                         *)
(* A std::string is a sequence of one-character strings.  Positions are    *)
(* 0-based as in the source; a size_t is an integer, and the one value     *)
(* above every string length that the code uses, std::string::npos, is     *)
(* written NPOS and kept as the two's-complement pattern -1: unsigned      *)
(* comparison and unsigned wrap-around are modelled by ULess and substr.   *)
(***************************************************************************)
EXTENDS Integers, Sequences, FiniteSets, TLC

VARIABLES recursion_level_, map_, reserve_, call, ret, out

vars == <<recursion_level_, map_, reserve_, call, ret, out>>

-----------------------------------------------------------------------------
(* Characters                                                              *)

\* the terminating '\0' that c_str() puts after the last character
NUL == "NUL"

\* the four characters of trim's whitespace[] array
whitespace == {" ", "\t", "\r", "\n"}

Digits == <<"0", "1", "2", "3", "4", "5", "6", "7", "8", "9">>

DigitChars == {Digits[i] : i \in 1..Len(Digits)}

AlphaChars ==
    {"a", "b", "c", "d", "e", "f", "g", "h", "i", "j", "k", "l", "m",
     "n", "o", "p", "q", "r", "s", "t", "u", "v", "w", "x", "y", "z",
     "A", "B", "C", "D", "E", "F", "G", "H", "I", "J", "K", "L", "M",
     "N", "O", "P", "Q", "R", "S", "T", "U", "V", "W", "X", "Y", "Z"}

\* isalnum in the "C" locale
isalnum(ch) == ch \in AlphaChars \cup DigitChars

\* isspace in the "C" locale, as atoi/strtol/strtod skip it
isspace(ch) == ch \in {" ", "\t", "\n", "\r"}

\* the characters of the model in ascending order of their code: the order
\* std::string's operator< (and so std::map's iteration) compares them in
CharOrder ==
    <<"\t", "\n", "\r", " ", "#", "$", "+", ",", "-", ".",
      "0", "1", "2", "3", "4", "5", "6", "7", "8", "9", "=",
      "A", "B", "C", "D", "E", "F", "G", "H", "I", "J", "K", "L", "M",
      "N", "O", "P", "Q", "R", "S", "T", "U", "V", "W", "X", "Y", "Z",
      "\\", "_",
      "a", "b", "c", "d", "e", "f", "g", "h", "i", "j", "k", "l", "m",
      "n", "o", "p", "q", "r", "s", "t", "u", "v", "w", "x", "y", "z",
      "{", "}">>

CharCode(ch) == CHOOSE i \in 1..Len(CharOrder) : CharOrder[i] = ch

-----------------------------------------------------------------------------
(* std::string primitives                                                  *)

NPOS == -1

\* a < b on size_t values
ULess(a, b) == IF (a < 0) = (b < 0) THEN a < b ELSE b < 0

\* s.substr(pos, n): at most n characters from pos; n is a size_t, so a
\* negative n is a count above every length
substr(s, pos, n) ==
    LET avail == Len(s) - pos
        cnt   == IF n < 0 \/ n > avail THEN avail ELSE n
    IN  SubSeq(s, pos + 1, pos + cnt)

\* s.find(ch, pos)
find(s, ch, pos) ==
    LET hits == {i \in 0..(Len(s) - 1) : i >= pos /\ s[i + 1] = ch}
    IN  IF hits = {} THEN NPOS
        ELSE CHOOSE i \in hits : \A j \in hits : i <= j

\* s.find_first_not_of(set)
find_first_not_of(s, set) ==
    LET hits == {i \in 0..(Len(s) - 1) : s[i + 1] \notin set}
    IN  IF hits = {} THEN NPOS
        ELSE CHOOSE i \in hits : \A j \in hits : i <= j

\* s.find_last_not_of(set)
find_last_not_of(s, set) ==
    LET hits == {i \in 0..(Len(s) - 1) : s[i + 1] \notin set}
    IN  IF hits = {} THEN NPOS
        ELSE CHOOSE i \in hits : \A j \in hits : i >= j

\* *pch for pch = str.c_str() + i
charAt(str, i) == IF i >= Len(str) THEN NUL ELSE str[i + 1]

\* a < b on std::string values (lexicographic by character code)
RECURSIVE StrLess(_, _)
StrLess(a, b) ==
    IF b = <<>> THEN FALSE
    ELSE IF a = <<>> THEN TRUE
    ELSE IF a[1] = b[1] THEN StrLess(Tail(a), Tail(b))
    ELSE CharCode(a[1]) < CharCode(b[1])

-----------------------------------------------------------------------------
(* setting::trim                                                           *)

trim(s) ==
    LET begin == find_first_not_of(s, whitespace)
        end   == find_last_not_of(s, whitespace)
    IN  IF begin = NPOS THEN <<>>
        ELSE substr(s, begin, end + 1)

(* setting::check_identifier                                               *)

check_identifier(ch) == isalnum(ch) \/ ch = "_"

(* setting::insert: the map after insert(s)                                *)

\* insert without its test of key.empty()
insert_unchecked(m, s) ==
    LET break_pos == find(s, "=", 0)
        key       == trim(substr(s, 0, break_pos))
        value     == trim(substr(s, break_pos + 1, NPOS))
    IN  [k \in DOMAIN m \cup {key} |-> IF k = key THEN value ELSE m[k]]

\* insert splitting at the last '=' (s.rfind) instead of the first
insert_at_last(m, s) ==
    LET hits      == {i \in 0..(Len(s) - 1) : s[i + 1] = "="}
        break_pos == IF hits = {} THEN NPOS
                     ELSE CHOOSE i \in hits : \A j \in hits : i >= j
        key       == trim(substr(s, 0, break_pos))
        value     == trim(substr(s, break_pos + 1, NPOS))
    IN  IF key # <<>>
        THEN [k \in DOMAIN m \cup {key} |-> IF k = key THEN value ELSE m[k]]
        ELSE m

\* int break_pos = s.find("="): npos becomes the int -1
insert(m, s) ==
    LET break_pos == find(s, "=", 0)
        key       == trim(substr(s, 0, break_pos))
        value     == trim(substr(s, break_pos + 1, NPOS))
    IN  IF key # <<>>
        THEN [k \in DOMAIN m \cup {key} |-> IF k = key THEN value ELSE m[k]]
        ELSE m

-----------------------------------------------------------------------------
(* setting::parse_once                                                     *)

PS_UNKNOW == 0
PS_ESCAPE == 1
PS_DOLLAR == 2
PS_FETCHKEY == 3
PS_REPLACE == 4
PS_FINISH == 5
PS_REPLACE_FINISH == 6

\* the locals of parse_once at the top of the first iteration
ps_init ==
    [pch |-> 0, state |-> PS_UNKNOW, brace_open |-> FALSE, key |-> <<>>,
     out |-> <<>>, done |-> FALSE, iter |-> 0]

\* the state selected at the top of one iteration (lines 361-373)
ps_select(state, ch) ==
    IF ch = "\\" THEN PS_ESCAPE
    ELSE IF ch = NUL
         THEN (IF state = PS_FETCHKEY THEN PS_REPLACE_FINISH ELSE PS_FINISH)
    ELSE IF ch = "$" /\ state # PS_ESCAPE THEN PS_DOLLAR
    ELSE IF state = PS_DOLLAR THEN PS_FETCHKEY
    ELSE IF state = PS_FETCHKEY /\ ~check_identifier(ch) /\ ch # "{"
         THEN PS_REPLACE
    ELSE IF state # PS_FETCHKEY THEN PS_UNKNOW
    ELSE state

\* one iteration of the scan loop without the test of the closing brace:
\* the character that ends a key is always scanned again
ps_step_rescanning(m, str, st) ==
    LET ch    == charAt(str, st.pch)
        state == ps_select(st.state, ch)
        found == st.key \in DOMAIN m
        repl  == state \in {PS_REPLACE, PS_REPLACE_FINISH}
        brk   == state \in {PS_FINISH, PS_REPLACE_FINISH}
    IN  [pch        |-> (IF repl THEN st.pch - 1 ELSE st.pch)
                        + (IF brk THEN 0 ELSE 1),
         state      |-> state,
         brace_open |-> st.brace_open \/ (state = PS_FETCHKEY /\ ch = "{"),
         key        |-> IF state = PS_FETCHKEY /\ check_identifier(ch)
                        THEN Append(st.key, ch)
                        ELSE IF repl /\ found THEN <<>>
                        ELSE st.key,
         out        |-> IF state = PS_UNKNOW THEN Append(st.out, ch)
                        ELSE IF repl /\ found THEN st.out \o m[st.key]
                        ELSE st.out,
         done       |-> brk,
         iter       |-> st.iter + 1]

\* one iteration of the scan loop stepping back two characters instead of
\* one after a lookup
ps_step_back_two(m, str, st) ==
    LET ch    == charAt(str, st.pch)
        state == ps_select(st.state, ch)
        found == st.key \in DOMAIN m
        repl  == state \in {PS_REPLACE, PS_REPLACE_FINISH}
        back  == repl /\ ~(st.brace_open /\ ch = "}")
        brk   == state \in {PS_FINISH, PS_REPLACE_FINISH}
    IN  [pch        |-> (IF back THEN st.pch - 2 ELSE st.pch)
                        + (IF brk THEN 0 ELSE 1),
         state      |-> state,
         brace_open |-> st.brace_open \/ (state = PS_FETCHKEY /\ ch = "{"),
         key        |-> IF state = PS_FETCHKEY /\ check_identifier(ch)
                        THEN Append(st.key, ch)
                        ELSE IF repl /\ found THEN <<>>
                        ELSE st.key,
         out        |-> IF state = PS_UNKNOW THEN Append(st.out, ch)
                        ELSE IF repl /\ found THEN st.out \o m[st.key]
                        ELSE st.out,
         done       |-> brk,
         iter       |-> st.iter + 1]

\* one iteration of the scan loop that consumes every '}', also outside a
\* reference
ps_step_eating_brace(m, str, st) ==
    LET ch    == charAt(str, st.pch)
        state == ps_select(st.state, ch)
        found == st.key \in DOMAIN m
        repl  == state \in {PS_REPLACE, PS_REPLACE_FINISH}
        back  == repl /\ ch # "}"
        brk   == state \in {PS_FINISH, PS_REPLACE_FINISH}
    IN  [pch        |-> (IF back THEN st.pch - 1 ELSE st.pch)
                        + (IF brk THEN 0 ELSE 1),
         state      |-> state,
         brace_open |-> st.brace_open \/ (state = PS_FETCHKEY /\ ch = "{"),
         key        |-> IF state = PS_FETCHKEY /\ check_identifier(ch)
                        THEN Append(st.key, ch)
                        ELSE IF repl /\ found THEN <<>>
                        ELSE st.key,
         out        |-> IF state = PS_UNKNOW /\ ch # "}" THEN Append(st.out, ch)
                        ELSE IF repl /\ found THEN st.out \o m[st.key]
                        ELSE st.out,
         done       |-> brk,
         iter       |-> st.iter + 1]

\* one iteration of the scan loop, the pch++ of the for statement included
ps_step(m, str, st) ==
    LET ch    == charAt(str, st.pch)
        state == ps_select(st.state, ch)
        found == st.key \in DOMAIN m
        repl  == state \in {PS_REPLACE, PS_REPLACE_FINISH}
        back  == repl /\ ~(st.brace_open /\ ch = "}")
        brk   == state \in {PS_FINISH, PS_REPLACE_FINISH}
    IN  [pch        |-> (IF back THEN st.pch - 1 ELSE st.pch)
                        + (IF brk THEN 0 ELSE 1),
         state      |-> state,
         brace_open |-> st.brace_open \/ (state = PS_FETCHKEY /\ ch = "{"),
         key        |-> IF state = PS_FETCHKEY /\ check_identifier(ch)
                        THEN Append(st.key, ch)
                        ELSE IF repl /\ found THEN <<>>
                        ELSE st.key,
         out        |-> IF state = PS_UNKNOW THEN Append(st.out, ch)
                        ELSE IF repl /\ found THEN st.out \o m[st.key]
                        ELSE st.out,
         done       |-> brk,
         iter       |-> st.iter + 1]

RECURSIVE ps_run(_, _, _)
ps_run(m, str, st) ==
    IF st.done THEN st ELSE ps_run(m, str, ps_step(m, str, st))

parse_once(m, str) == ps_run(m, str, ps_init).out

-----------------------------------------------------------------------------
(* setting::parse_recursive                                                *)

\* the loop of lines 407-412 from iteration i on; passes counts its rounds
RECURSIVE pr_loop(_, _, _, _, _)
pr_loop(m, level, str, i, lhs) ==
    IF i < level /\ ULess(find(str, "$", 0), NPOS)
    THEN pr_loop(m, level, str, i + 1, parse_once(m, lhs))
    ELSE [out |-> lhs, passes |-> i]

\* parse_recursive with an off-by-one bound (i <= recursion_level_): one
\* pass too many
parse_recursive_extra_pass(m, level, str) == pr_loop(m, level + 1, str, 0, str)

\* parse_recursive with the '$' test made on the intermediate result, so
\* that it stops as soon as no '$' is left
RECURSIVE pr_loop_until_plain(_, _, _, _)
pr_loop_until_plain(m, level, i, lhs) ==
    IF i < level /\ ULess(find(lhs, "$", 0), NPOS)
    THEN pr_loop_until_plain(m, level, i + 1, parse_once(m, lhs))
    ELSE [out |-> lhs, passes |-> i]

parse_recursive_until_plain(m, level, str) ==
    pr_loop_until_plain(m, level, 0, str)

parse_recursive(m, level, str) == pr_loop(m, level, str, 0, str)

(* setting::get_value: the value returned and reserve_ after the call      *)

get_value(m, level, res, key) ==
    IF key \in DOMAIN m
    THEN [found |-> TRUE, reserve |-> parse_recursive(m, level, m[key]).out]
    ELSE [found |-> FALSE, reserve |-> res]

-----------------------------------------------------------------------------
(* atoi / atol / atoll / strtod on reserve_.c_str()                        *)

\* the longest digit run whose value is computed; a longer run is reported
\* as out of range instead of a number
MaxDigits == 9

DigitValue(ch) == (CHOOSE i \in 1..Len(Digits) : Digits[i] = ch) - 1

\* the position after the leading isspace characters
RECURSIVE skip_space(_, _)
skip_space(s, i) ==
    IF isspace(charAt(s, i)) THEN skip_space(s, i + 1) ELSE i

\* the number of decimal digits from position i on
RECURSIVE digit_run(_, _)
digit_run(s, i) ==
    IF charAt(s, i) \in DigitChars THEN 1 + digit_run(s, i + 1) ELSE 0

\* the value of the n digits from position i on, after acc
RECURSIVE digit_value(_, _, _, _)
digit_value(s, i, n, acc) ==
    IF n = 0 THEN acc
    ELSE digit_value(s, i + 1, n - 1, 10 * acc + DigitValue(charAt(s, i)))

\* strtol(s, NULL, 10): optional whitespace, optional sign, decimal digits;
\* no digits give 0
strtol10(s) ==
    LET i    == skip_space(s, 0)
        neg  == charAt(s, i) = "-"
        j    == IF charAt(s, i) \in {"+", "-"} THEN i + 1 ELSE i
        n    == digit_run(s, j)
    IN  IF n > MaxDigits THEN [kind |-> "range", val |-> 0]
        ELSE [kind |-> "int",
              val  |-> (IF neg THEN -1 ELSE 1) * digit_value(s, j, n, 0)]

atoi(s) == strtol10(s)

atol(s) == strtol10(s)

atoll(s) == strtol10(s)

\* (long) strtod(s, NULL) for a decimal mantissa: the conversion to long
\* drops the fraction, so the result is the signed integer part.  A mantissa
\* followed by an exponent, and the hex, inf and nan forms, are outside the
\* modelled inputs and reported as such.
strtod_long(s) ==
    LET i    == skip_space(s, 0)
        j    == IF charAt(s, i) \in {"+", "-"} THEN i + 1 ELSE i
        n    == digit_run(s, j)
        k    == IF charAt(s, j + n) = "."
                THEN j + n + 1 + digit_run(s, j + n + 1) ELSE j + n
        form == charAt(s, k) \in {"e", "E"} \/ charAt(s, j) \in {"i", "I", "n", "N"}
                \/ (n = 1 /\ charAt(s, j) = "0" /\ charAt(s, j + 1) \in {"x", "X"})
    IN  IF form THEN [kind |-> "range", val |-> 0] ELSE strtol10(s)

-----------------------------------------------------------------------------
(* setting::get_vector: the vector after the loop of lines 210-217         *)

RECURSIVE gv_loop(_, _, _)
gv_loop(res, pos, v) ==
    IF ~ULess(pos, NPOS) THEN v
    ELSE LET f         == find(res, ",", pos)
             break_pos == IF f = NPOS THEN NPOS - 1 ELSE f
             s         == trim(substr(res, pos, break_pos - pos))
         IN  gv_loop(res, break_pos + 1, IF s # <<>> THEN Append(v, s) ELSE v)

(* setting::dump: the text written to *out                                 *)

\* the keys of m in std::map's iteration order
RECURSIVE sorted_keys(_)
sorted_keys(ks) ==
    IF ks = {} THEN <<>>
    ELSE LET k == CHOOSE a \in ks : \A b \in ks \ {a} : StrLess(a, b)
         IN  <<k>> \o sorted_keys(ks \ {k})

RECURSIVE dump_from(_, _)
dump_from(m, ks) ==
    IF ks = <<>> THEN <<>>
    ELSE ks[1] \o <<" ", "=", " ">> \o m[ks[1]] \o <<"\n">>
         \o dump_from(m, Tail(ks))

dump_text(m) == dump_from(m, sorted_keys(DOMAIN m))

(* setting::read_from_file: the map after the getline loop over a file     *)
(* whose content is the given character sequence, from position pos on     *)

RECURSIVE rf_loop(_, _, _)
rf_loop(m, content, pos) ==
    LET f == find(content, "\n", pos)
    IN  IF f = NPOS THEN m
        ELSE LET trimmed_line == trim(substr(content, pos, f - pos))
             IN  rf_loop(IF trimmed_line # <<>> /\ trimmed_line[1] # "#"
                         THEN insert(m, trimmed_line) ELSE m,
                         content, f + 1)

-----------------------------------------------------------------------------
(* The object.  recursion_level_, map_ and reserve_ are the members of     *)
(* setting; call is the last public call with its arguments (out0 is the   *)
(* content of the caller's output argument before the call), ret is what   *)
(* it returned and out is the caller's output argument after it.           *)

\* a value with nothing in it: no default, no output argument, void
None == [kind |-> "none", val |-> <<>>]

IntVal(n) == [kind |-> "int", val |-> n]

StrVal(s) == [kind |-> "cstr", val |-> s]

\* a null const char *
NullPtr == [kind |-> "null", val |-> <<>>]

\* the default of the constructors' level parameter
DefaultLevel == 3

\* the largest recursion level a setting is constructed with
MaxLevel == 3

\* setting(size_t level = 3) without an argument: an empty store
Init ==
    /\ recursion_level_ = DefaultLevel
    /\ map_ = <<>>
    /\ reserve_ = <<>>
    /\ call = [op |-> "setting", arg |-> <<>>, defval |-> None, out0 |-> None]
    /\ ret = None
    /\ out = None

\* setting& operator<<(s), both overloads
operator_lshift(s) ==
    /\ map_' = insert(map_, s)
    /\ call' = [op |-> "operator<<", arg |-> s, defval |-> None, out0 |-> None]
    /\ ret' = None
    /\ out' = None
    /\ UNCHANGED <<recursion_level_, reserve_>>

\* read_from_file(filename) for a file that opens with the given content,
\* or does not open
read_from_file(file) ==
    /\ map_' = IF file.open THEN rf_loop(map_, file.content, 0) ELSE map_
    /\ call' = [op |-> "read_from_file", arg |-> file.content,
                defval |-> None, out0 |-> None]
    /\ ret' = IF file.open THEN None
              ELSE [kind |-> "runtime_error", val |-> <<>>]
    /\ out' = None
    /\ UNCHANGED <<recursion_level_, reserve_>>

\* a getter that writes the resolved string back into the store entry it
\* read
Got_storing(op, key, defval, g) ==
    /\ reserve_' = g.reserve
    /\ map_' = IF g.found THEN [map_ EXCEPT ![key] = g.reserve] ELSE map_
    /\ call' = [op |-> op, arg |-> key, defval |-> defval, out0 |-> None]
    /\ out' = None
    /\ UNCHANGED recursion_level_

\* what a getter leaves alone and records, given get_value's result g
Got(op, key, defval, g) ==
    /\ reserve_' = g.reserve
    /\ call' = [op |-> op, arg |-> key, defval |-> defval, out0 |-> None]
    /\ out' = None
    /\ UNCHANGED <<recursion_level_, map_>>

\* get_int falling back to defval also when the string holds no number
get_int_or_default(key, defval) ==
    LET g == get_value(map_, recursion_level_, reserve_, key)
        i == skip_space(g.reserve, 0)
        j == IF charAt(g.reserve, i) \in {"+", "-"} THEN i + 1 ELSE i
    IN  /\ ret' = IF g.found /\ digit_run(g.reserve, j) > 0
                  THEN atoi(g.reserve) ELSE IntVal(defval)
        /\ Got("get_int", key, IntVal(defval), g)

get_int(key, defval) ==
    LET g == get_value(map_, recursion_level_, reserve_, key)
    IN  /\ ret' = IF g.found THEN atoi(g.reserve) ELSE IntVal(defval)
        /\ Got("get_int", key, IntVal(defval), g)

get_long(key, defval) ==
    LET g == get_value(map_, recursion_level_, reserve_, key)
    IN  /\ ret' = IF g.found THEN atol(g.reserve) ELSE IntVal(defval)
        /\ Got("get_long", key, IntVal(defval), g)

get_longlong(key, defval) ==
    LET g == get_value(map_, recursion_level_, reserve_, key)
    IN  /\ ret' = IF g.found THEN atoll(g.reserve) ELSE IntVal(defval)
        /\ Got("get_longlong", key, IntVal(defval), g)

\* a double that is a whole number of tenths, converted to long
TenthsToLong(t) == IF t >= 0 THEN t \div 10 ELSE -((-t) \div 10)

\* long get_double(key, defval): defval is given in tenths, and the value
\* returned is a long
get_double(key, defval) ==
    LET g == get_value(map_, recursion_level_, reserve_, key)
    IN  /\ ret' = IF g.found THEN strtod_long(g.reserve)
                  ELSE IntVal(TenthsToLong(defval))
        /\ Got("get_double", key, [kind |-> "tenths", val |-> defval], g)

\* defval is NullPtr or StrVal(s)
get_cstr(key, defval) ==
    LET g == get_value(map_, recursion_level_, reserve_, key)
    IN  /\ ret' = IF g.found THEN StrVal(g.reserve) ELSE defval
        /\ Got("get_cstr", key, defval, g)

\* v0 is the content of *out before the call
get_vector(key, v0) ==
    LET g == get_value(map_, recursion_level_, reserve_, key)
    IN  /\ ret' = [kind |-> "bool", val |-> g.found]
        /\ out' = [kind |-> "vector",
                   val  |-> IF g.found THEN gv_loop(g.reserve, 0, v0) ELSE v0]
        /\ reserve_' = g.reserve
        /\ call' = [op |-> "get_vector", arg |-> key, defval |-> None,
                    out0 |-> [kind |-> "vector", val |-> v0]]
        /\ UNCHANGED <<recursion_level_, map_>>

\* dump without its out->clear(): the text is appended to what *out held
dump_appending(s0) ==
    /\ out' = [kind |-> "string", val |-> s0 \o dump_text(map_)]
    /\ call' = [op |-> "dump", arg |-> <<>>, defval |-> None,
                out0 |-> [kind |-> "string", val |-> s0]]
    /\ ret' = None
    /\ UNCHANGED <<recursion_level_, map_, reserve_>>

\* s0 is the content of *out before the call
dump(s0) ==
    /\ out' = [kind |-> "string", val |-> dump_text(map_)]
    /\ call' = [op |-> "dump", arg |-> <<>>, defval |-> None,
                out0 |-> [kind |-> "string", val |-> s0]]
    /\ ret' = None
    /\ UNCHANGED <<recursion_level_, map_, reserve_>>

-----------------------------------------------------------------------------
(* Ingestion and dump: a setting that lines are appended to and files are  *)
(* loaded into, dumped and read                                            *)

\* the most whitespace characters put on one side of a key or a value
MaxPad == 1

Pad(n) == [i \in 1..n |-> " "]

\* the line with l and r spaces around the key and around the value
Line(key, value, l, r) ==
    Pad(l) \o key \o Pad(r) \o <<"=">> \o Pad(l) \o value \o Pad(r)

PaddedLines ==
    {Line(<<"k">>, <<"v">>, l, r) : l \in 0..MaxPad, r \in 0..MaxPad}

\* other lines: no '=', an empty key, an empty value,
\* a second '=', a '#' first, a blank line
OddLines ==
    {<<"a", "b", "c">>,
     <<"=", "v">>,
     <<" ", "=", " ", "v">>,
     <<"k", "=">>,
     <<"x", " ", "=", " ", "a", "=", "b", "=", "c">>,
     <<"x", "=", " ", "a", "=", "b", " ">>,
     <<"#", "k", " ", "=", " ", "v">>,
     <<" ", "#", " ", "c">>,
     <<>>}

Lines == PaddedLines \cup OddLines

\* the text of a file with the given lines, each ended by a newline but
\* for the last one when the file does not end in a newline
RECURSIVE FileText(_, _)
FileText(ls, ended) ==
    IF ls = <<>> THEN <<>>
    ELSE ls[1] \o (IF Len(ls) > 1 \/ ended THEN <<"\n">> ELSE <<>>)
         \o FileText(Tail(ls), ended)

FileLines ==
    {<<"k", " ", "=", " ", "v">>,
     <<" ", "#", " ", "c">>,
     <<>>}

\* the most lines in a file
MaxFileLines == 2

Files ==
    {[open |-> FALSE, content |-> <<>>]} \cup
    {[open |-> TRUE, content |-> FileText(ls, ended)] :
        ls \in UNION {[1..n -> FileLines] : n \in 0..MaxFileLines},
        ended \in BOOLEAN}

OutStrings == {<<>>, <<"z">>}

Next ==
    \/ \E s \in Lines : operator_lshift(s)
    \/ \E file \in Files : read_from_file(file)
    \/ \E s0 \in OutStrings : dump(s0)

Spec == Init /\ [][Next]_vars

-----------------------------------------------------------------------------
(* Interpolation: a setting constructed from a file, setting(s, level),    *)
(* and read with get_cstr                                                  *)

\* the lines a file has for each of the keys a to e; a blank line
\* stands for a file without the key
RefLinesA ==
    {<<>>,
     <<"a", " ", "=", " ", "$", "b">>,
     <<"a", " ", "=", " ", "\\", "$", "b">>,
     <<"a", " ", "=", " ", "$", "x", " ", "$", "b", ".">>,
     <<"a", " ", "=", " ", "$", "b", "$", "c">>,
     <<"a", " ", "=", " ", "b", " ", "i", "s", " ", "$", "b", ",", " ", "c", " ", "i", "s", " ", "$", "c", ".">>,
     <<"a", " ", "=", " ", "x", "\\", "y", "{", "z", "}">>,
     <<"a", " ", "=", " ", "$", "{", "b", "}", "c", "}">>,
     <<"a", " ", "=", " ", "$", "{", "b", "}", " ", "{", "$", "c", "}">>,
     <<"a", " ", "=", " ", "$", " ", "b">>,
     <<"a", " ", "=", " ", "$", "a">>}

RefLinesB ==
    {<<>>,
     <<"b", " ", "=", " ", "$", "c">>,
     <<"b", " ", "=", " ", "$", "a">>,
     <<"b", " ", "=", " ", "B">>,
     <<"b", " ", "=", " ", "1", "\\", "2">>}

RefLinesC ==
    {<<>>,
     <<"c", " ", "=", " ", "$", "d">>,
     <<"c", " ", "=", " ", "C">>}

RefLinesD ==
    {<<>>,
     <<"d", " ", "=", " ", "$", "e">>,
     <<"d", " ", "=", " ", "D">>}

RefLinesE ==
    {<<>>,
     <<"e", " ", "=", " ", "{", "E", "}">>}

RefFiles ==
    {FileText(<<la, lb, lc, ld, le>>, TRUE) :
        la \in RefLinesA, lb \in RefLinesB, lc \in RefLinesC,
        ld \in RefLinesD, le \in RefLinesE}

\* the keys read: a to e, and x, which no file stores
RefKeys ==
    {<<"a">>,
     <<"b">>,
     <<"c">>,
     <<"d">>,
     <<"e">>,
     <<"x">>}

\* setting(const char *s, size_t level) on a file that opens
InitInterp ==
    /\ recursion_level_ \in 0..MaxLevel
    /\ \E content \in RefFiles : map_ = rf_loop(<<>>, content, 0)
    /\ reserve_ = <<>>
    /\ call = [op |-> "setting", arg |-> <<>>, defval |-> None, out0 |-> None]
    /\ ret = None
    /\ out = None

NextInterp ==
    \E key \in RefKeys : get_cstr(key, NullPtr)

SpecInterp == InitInterp /\ [][NextInterp]_vars

-----------------------------------------------------------------------------
(* Typed getters: a setting constructed from a file with the default       *)
(* level, setting(s), read with every getter and dumped                    *)

\* the lines a file has for each of the keys n, v and r; a blank line
\* stands for a file without the key
GetLinesN ==
    {<<>>,
     <<"n", " ", "=", " ", "1", "2">>,
     <<"n", " ", "=", " ", "-", "7", "x">>,
     <<"n", " ", "=", " ", "a", "b", "c">>,
     <<"n", " ", "=">>,
     <<"n", " ", "=", " ", "3", ".", "9">>}

GetLinesV ==
    {<<>>,
     <<"v", " ", "=", " ", "a", " ", ",", " ", "b", " ", ",", " ", "c">>,
     <<"v", " ", "=", " ", "e", "l", "1", ",", "e", "l", "2", " ", ",", "e", "l", "3", ",", " ", "e", "l", "4">>,
     <<"v", " ", "=", " ", ",", "a", ",", ",", "a", ",">>}

GetLinesR ==
    {<<>>,
     <<"r", " ", "=", " ", "$", "n">>,
     <<"r", " ", "=", " ", "$", "v", ",", "$", "n">>}

GetFiles ==
    {FileText(<<ln, lv, lr>>, TRUE) :
        ln \in GetLinesN, lv \in GetLinesV, lr \in GetLinesR}

\* the keys read: n, v and r, and zz, which no file stores
GetKeys ==
    {<<"n">>,
     <<"v">>,
     <<"r">>,
     <<"z", "z">>}

IntDefaults == {0, 7}

\* in tenths: 0.0 and 2.5
DoubleDefaults == {0, 25}

StrDefaults == {NullPtr, StrVal(<<"d">>)}

OutVectors == {<<>>, <<<<"z">>>>}

\* setting(const char *s, size_t level = 3) on a file that opens
InitGet ==
    /\ recursion_level_ = DefaultLevel
    /\ \E content \in GetFiles : map_ = rf_loop(<<>>, content, 0)
    /\ reserve_ = <<>>
    /\ call = [op |-> "setting", arg |-> <<>>, defval |-> None, out0 |-> None]
    /\ ret = None
    /\ out = None

NextGet ==
    \/ \E key \in GetKeys, d \in IntDefaults : get_int(key, d)
    \/ \E key \in GetKeys, d \in IntDefaults : get_long(key, d)
    \/ \E key \in GetKeys, d \in IntDefaults : get_longlong(key, d)
    \/ \E key \in GetKeys, d \in DoubleDefaults : get_double(key, d)
    \/ \E key \in GetKeys, d \in StrDefaults : get_cstr(key, d)
    \/ \E key \in GetKeys, v0 \in OutVectors : get_vector(key, v0)
    \/ \E s0 \in OutStrings : dump(s0)

SpecGet == InitGet /\ [][NextGet]_vars

-----------------------------------------------------------------------------
(* Claims about ingestion, checked under Spec                              *)

HasChar(s, ch) == \E i \in 1..Len(s) : s[i] = ch

\* s neither begins nor ends with a whitespace character
NoEdgeSpace(s) == s = <<>> \/ (s[1] \notin whitespace /\ s[Len(s)] \notin whitespace)

\* C1: after any sequence of appends and file loads, every stored key and
\* every stored value has no leading and no trailing whitespace character.
C1_StoredTrimmed ==
    \A k \in DOMAIN map_ : NoEdgeSpace(k) /\ NoEdgeSpace(map_[k])

\* C4: an append of a line that contains no '=' leaves the store as it was.
C4_NoEqualsDropped ==
    [][(call'.op = "operator<<" /\ ~HasChar(call'.arg, "="))
         => map_' = map_]_vars

\* the store loaded from the lines of dump(m)
Reloaded(m) == rf_loop(<<>>, dump_text(m), 0)

\* C8: every key of the store is a key of the store loaded from its dump,
\* and reading it there gives the same resolved string.
C8_RoundTrip ==
    \A k \in DOMAIN map_ :
        /\ k \in DOMAIN Reloaded(map_)
        /\ parse_recursive(Reloaded(map_), recursion_level_,
                           Reloaded(map_)[k]).out
             = parse_recursive(map_, recursion_level_, map_[k]).out

-----------------------------------------------------------------------------
(* Claims about interpolation, checked under SpecInterp                    *)

\* t occurs in s as a run of adjacent characters
HasSub(s, t) ==
    \E i \in 0..(Len(s) - Len(t)) : SubSeq(s, i + 1, i + Len(t)) = t

\* the last call was a get_cstr of a key that is in the store
ReadPresent == call.op = "get_cstr" /\ call.arg \in DOMAIN map_

\* the raw value of the key last read
Raw == map_[call.arg]

\* the number of identifier characters of s from its i-th character on
RECURSIVE IdentRun(_, _)
IdentRun(s, i) ==
    IF i <= Len(s) /\ check_identifier(s[i]) THEN 1 + IdentRun(s, i + 1) ELSE 0

\* s from its i-th character on, with every $name replaced by the raw value
\* of name, or by nothing when name is not in m: the reading of a value of
\* literal text and bare references
RECURSIVE ExpandBare(_, _, _)
ExpandBare(m, s, i) ==
    IF i > Len(s) THEN <<>>
    ELSE IF s[i] = "$"
    THEN LET n    == IdentRun(s, i + 1)
             name == SubSeq(s, i + 1, i + n)
         IN  (IF name \in DOMAIN m THEN m[name] ELSE <<>>)
             \o ExpandBare(m, s, i + n + 1)
    ELSE <<s[i]>> \o ExpandBare(m, s, i + 1)

\* the name of the bare reference whose '$' is the i-th character of s
NameAt(s, i) == SubSeq(s, i + 1, i + IdentRun(s, i + 1))

\* s is literal text (no backslash, no brace) and bare references $name
BareText(s) ==
    /\ \A i \in 1..Len(s) : s[i] \notin {"\\", "{", "}"}
    /\ \A i \in 1..Len(s) : s[i] = "$" => IdentRun(s, i + 1) >= 1

\* C2: a key a whose raw value is a backslash followed by $b reads, at every
\* recursion level >= 1, as a string that still contains the characters $b.
C2_EscapeKept ==
    (ReadPresent /\ call.arg = <<"a">> /\ Raw = <<"\\", "$", "b">>
       /\ recursion_level_ >= 1)
    => (ret.kind = "cstr" /\ HasSub(ret.val, <<"$", "b">>))

\* s has a reference to a key that is not in m and, after it, a reference
\* to a key that is; and no reference of s is ended by a '$'
AbsentThenPresent(m, s) ==
    /\ BareText(s)
    /\ \A i \in 1..Len(s) :
          s[i] = "$" => charAt(s, i + IdentRun(s, i + 1)) # "$"
    /\ \E i, j \in 1..Len(s) :
          /\ i < j /\ s[i] = "$" /\ s[j] = "$"
          /\ NameAt(s, i) \notin DOMAIN m
          /\ NameAt(s, j) \in DOMAIN m

\* C3: in one pass a reference to an absent key contributes nothing and every
\* later reference to a present key is replaced by that key's raw value.
C3_IndependentLookup ==
    (ReadPresent /\ recursion_level_ = 1 /\ AbsentThenPresent(map_, Raw))
    => ret = StrVal(ExpandBare(map_, Raw, 1))

\* v is a single bare reference, $name
IsBareRef(v) ==
    Len(v) >= 2 /\ v[1] = "$" /\ \A i \in 2..Len(v) : check_identifier(v[i])

\* v has neither '$' nor backslash
IsLiteral(v) == \A i \in 1..Len(v) : v[i] \notin {"$", "\\"}

\* from key k on, m holds a chain of n reference hops that ends in a literal
RECURSIVE Chain(_, _, _)
Chain(m, k, n) ==
    /\ k \in DOMAIN m
    /\ IF n = 0 THEN IsLiteral(m[k])
       ELSE IsBareRef(m[k]) /\ Chain(m, Tail(m[k]), n - 1)

\* the key n hops after k on such a chain
RECURSIVE HopKey(_, _, _)
HopKey(m, k, n) == IF n = 0 THEN k ELSE HopKey(m, Tail(m[k]), n - 1)

\* C5: with recursion level N >= 1, reading the first key of a chain of M
\* reference hops that ends in a literal returns the literal when M <= N,
\* and the raw value of the N-th key of the chain, a string that still has
\* a '$', when M > N; a string is returned in both cases.
C5_RecursionBound ==
    \A M \in 0..Cardinality(DOMAIN map_) :
        (call.op = "get_cstr" /\ recursion_level_ >= 1
           /\ Chain(map_, call.arg, M))
        => IF M <= recursion_level_
           THEN ret = StrVal(map_[HopKey(map_, call.arg, M)])
           ELSE /\ ret = StrVal(map_[HopKey(map_, call.arg, recursion_level_)])
                /\ HasChar(ret.val, "$")

\* C5 witness: a chain longer than the recursion level was read, and one
\* hop short of the literal was returned.
C5_Witness ==
    /\ call.op = "get_cstr" /\ recursion_level_ >= 2
    /\ Chain(map_, call.arg, recursion_level_ + 1)
    /\ ret = StrVal(map_[HopKey(map_, call.arg, recursion_level_)])

\* n passes of parse_once over s, each fed the output of the one before
RECURSIVE Passes(_, _, _)
Passes(m, n, s) == IF n = 0 THEN s ELSE Passes(m, n - 1, parse_once(m, s))

\* C6: a read applies exactly recursion_level_ passes when the raw value has
\* a '$' and none otherwise, so a raw value without '$' is returned as it is.
C6_PassCount ==
    ReadPresent =>
        /\ parse_recursive(map_, recursion_level_, Raw).passes
             = (IF HasChar(Raw, "$") THEN recursion_level_ ELSE 0)
        /\ ret = StrVal(IF HasChar(Raw, "$")
                        THEN Passes(map_, recursion_level_, Raw) ELSE Raw)
        /\ (~HasChar(Raw, "$") => ret = StrVal(Raw))

\* C6 witness: a raw value with a backslash and braces but no '$' was read
\* at a positive level and came back unchanged.
C6_Witness ==
    /\ ReadPresent /\ recursion_level_ >= 1
    /\ ~HasChar(Raw, "$") /\ HasChar(Raw, "\\") /\ HasChar(Raw, "{")
    /\ ret = StrVal(Raw)

\* every reference of s is to a key of m whose raw value has no '$'
RefsResolved(m, s) ==
    \A i \in 1..Len(s) :
        s[i] = "$" => /\ NameAt(s, i) \in DOMAIN m
                      /\ ~HasChar(m[NameAt(s, i)], "$")

\* C7: a value of literal text and bare references to present keys whose raw
\* values have no '$' reads as the text with each reference replaced by that
\* key's raw value and every other character unchanged and in order.
C7_BareReferences ==
    (ReadPresent /\ recursion_level_ >= 1 /\ HasChar(Raw, "$")
       /\ BareText(Raw) /\ RefsResolved(map_, Raw))
    => ret = StrVal(ExpandBare(map_, Raw, 1))

-----------------------------------------------------------------------------
(* Claims about the getters, checked under SpecGet                         *)

\* s without its leading whitespace characters
RECURSIVE StripLeft(_)
StripLeft(s) ==
    IF s # <<>> /\ s[1] \in whitespace THEN StripLeft(Tail(s)) ELSE s

\* s without its trailing whitespace characters
RECURSIVE StripRight(_)
StripRight(s) ==
    IF s # <<>> /\ s[Len(s)] \in whitespace
    THEN StripRight(SubSeq(s, 1, Len(s) - 1)) ELSE s

\* the comma-separated segments of s, in order
RECURSIVE Segments(_)
Segments(s) ==
    IF ~HasChar(s, ",") THEN <<s>>
    ELSE LET f == CHOOSE i \in 1..Len(s) :
                      s[i] = "," /\ \A j \in 1..(i - 1) : s[j] # ","
         IN  <<SubSeq(s, 1, f - 1)>> \o Segments(SubSeq(s, f + 1, Len(s)))

\* the segments of s, each without its surrounding whitespace, the empty
\* ones left out
RECURSIVE TrimmedSegments(_)
TrimmedSegments(segs) ==
    IF segs = <<>> THEN <<>>
    ELSE LET t == StripRight(StripLeft(segs[1]))
         IN  (IF t = <<>> THEN <<>> ELSE <<t>>) \o TrimmedSegments(Tail(segs))

\* C9: get_vector on a present key returns true and appends, in order, the
\* comma-separated segments of the resolved string after trimming: every
\* appended element is non-empty and has no surrounding whitespace.
C9_VectorSegments ==
    (call.op = "get_vector" /\ call.arg \in DOMAIN map_)
    => /\ ret.val = TRUE
       /\ out.val = call.out0.val \o TrimmedSegments(Segments(reserve_))
       /\ \A i \in 1..Len(out.val) :
             out.val[i] # <<>> /\ NoEdgeSpace(out.val[i])

\* the last call was one of get_int, get_long, get_longlong on a key of the
\* store whose resolved string does not start, after whitespace and an
\* optional sign, with a digit
UnparseableRead ==
    /\ call.op \in {"get_int", "get_long", "get_longlong"}
    /\ call.arg \in DOMAIN map_
    /\ LET t == StripLeft(reserve_)
           u == IF t # <<>> /\ t[1] \in {"+", "-"} THEN Tail(t) ELSE t
       IN  u = <<>> \/ u[1] \notin DigitChars

-----------------------------------------------------------------------------
(* Claims about reads of absent keys and the frame of reads, checked       *)
(* under SpecGet                                                           *)

\* the last call was a getter of a key that is not in the store
AbsentRead ==
    /\ call.op \in {"get_int", "get_long", "get_longlong", "get_double",
                    "get_cstr", "get_vector"}
    /\ call.arg \notin DOMAIN map_

\* C11: a typed getter called on a key that is not in the store returns the
\* caller's default exactly (for get_double the double itself, here in
\* tenths), and get_vector returns false and leaves the vector as it was.
C11_AbsentDefault ==
    AbsentRead =>
        CASE call.op = "get_vector" ->
                 ret = [kind |-> "bool", val |-> FALSE] /\ out = call.out0
          [] call.op = "get_double" ->
                 ret.kind = "int" /\ 10 * ret.val = call.defval.val
          [] OTHER -> ret = call.defval

ReadOps ==
    {"get_int", "get_long", "get_longlong", "get_double", "get_cstr",
     "get_vector", "dump"}

\* C13: no read changes the store: across every getter and dump call, on a
\* present or an absent key, the keys, every raw value and the recursion
\* level are what they were before the call.
C13_ReadsKeepStore ==
    [][call'.op \in ReadOps
         => (map_' = map_ /\ recursion_level_' = recursion_level_)]_vars

\* C13 witness: a key whose raw value has a reference was read, the string
\* returned is the resolved one, and the store still holds the raw value.
C13_Witness ==
    /\ call.op = "get_cstr" /\ call.arg \in DOMAIN map_
    /\ HasChar(map_[call.arg], "$")
    /\ ret.kind = "cstr" /\ ret.val # <<>> /\ ~HasChar(ret.val, "$")

-----------------------------------------------------------------------------
(* Further claims about ingestion and dump, checked under Spec             *)

\* the first non-whitespace character of the line s is '#'
IsComment(s) == StripLeft(s) # <<>> /\ StripLeft(s)[1] = "#"

\* the position of the first ch in s, a sequence that has one
FirstOf(s, ch) ==
    CHOOSE i \in 1..Len(s) : s[i] = ch /\ \A j \in 1..(i - 1) : s[j] # ch

\* the text of a file without its comment lines
RECURSIVE DropComments(_)
DropComments(text) ==
    IF ~HasChar(text, "\n")
    THEN (IF IsComment(text) THEN <<>> ELSE text)
    ELSE LET f    == FirstOf(text, "\n")
             line == SubSeq(text, 1, f - 1)
         IN  (IF IsComment(line) THEN <<>> ELSE line \o <<"\n">>)
             \o DropComments(SubSeq(text, f + 1, Len(text)))

\* C12: a line whose first non-whitespace character is '#' never creates or
\* changes a store entry: an append of such a line leaves the store as it
\* was, and a file load gives the store that the file without its comment
\* lines gives.
C12_CommentIgnored ==
    [][/\ (call'.op = "operator<<" /\ IsComment(call'.arg))
            => map_' = map_
       /\ (call'.op = "read_from_file" /\ ret'.kind # "runtime_error")
            => map_' = rf_loop(map_, DropComments(call'.arg), 0)]_vars

\* the lines of a text, each without the newline that ends it
RECURSIVE TextLines(_)
TextLines(text) ==
    IF ~HasChar(text, "\n") THEN <<>>
    ELSE LET f == FirstOf(text, "\n")
         IN  <<SubSeq(text, 1, f - 1)>>
             \o TextLines(SubSeq(text, f + 1, Len(text)))

\* the line of the entry of key k: the key, " = " and the raw value
EntryLine(m, k) == k \o <<" ", "=", " ">> \o m[k]

\* C14: the text dump writes is, whatever the output string held before, one
\* newline-ended line per store entry, each the key, " = " and the raw
\* value, the lines in ascending order of their keys; an empty store gives
\* the empty string.
C14_DumpFormat ==
    call.op = "dump" =>
        LET L == TextLines(out.val)
        IN  /\ out.kind = "string"
            /\ (out.val = <<>> \/ out.val[Len(out.val)] = "\n")
            /\ Len(L) = Cardinality(DOMAIN map_)
            /\ \A k \in DOMAIN map_ :
                  \E i \in 1..Len(L) : L[i] = EntryLine(map_, k)
            /\ \A i, j \in 1..Len(L) :
                  i < j => \E ki, kj \in DOMAIN map_ :
                               /\ L[i] = EntryLine(map_, ki)
                               /\ L[j] = EntryLine(map_, kj)
                               /\ StrLess(ki, kj)
            /\ (map_ = <<>> => out.val = <<>>)

\* C14 witness: a store of three or more entries was dumped into a string
\* that held other text before.
C14_Witness ==
    /\ call.op = "dump" /\ Cardinality(DOMAIN map_) >= 3
    /\ call.out0.val # <<>>
    /\ out.val # <<>> /\ out.val[1] # call.out0.val[1]

\* s without its leading and trailing whitespace characters
Strip(s) == StripRight(StripLeft(s))

\* the text of the line s before its first '=', and the text after it
BeforeEq(s) == SubSeq(s, 1, FirstOf(s, "=") - 1)

AfterEq(s) == SubSeq(s, FirstOf(s, "=") + 1, Len(s))

\* s is a `key = value` line: not a comment, with a '=' and a key before it
ValidLine(s) == ~IsComment(s) /\ HasChar(s, "=") /\ Strip(BeforeEq(s)) # <<>>

\* the store m with key k set to value v and every other entry as it is
Put(m, k, v) == [x \in DOMAIN m \cup {k} |-> IF x = k THEN v ELSE m[x]]

\* C15: an append of a `key = value` line makes the key map to the line's
\* value, whatever the store held for it, and changes no other entry (so
\* that appends of lines with distinct keys commute).
C15_LastWriteWins ==
    [][(call'.op = "operator<<" /\ ValidLine(call'.arg))
         => map_' = Put(map_, Strip(BeforeEq(call'.arg)),
                        Strip(AfterEq(call'.arg)))]_vars

\* the text of the line s before its first '=' is empty or only whitespace
EmptyKeyLine(s) == HasChar(s, "=") /\ Strip(BeforeEq(s)) = <<>>

\* C16: no store entry ever has the empty key, and an append of a line whose
\* text before the first '=' is empty or only whitespace leaves the store as
\* it was.
C16_NoEmptyKey ==
    /\ [](<<>> \notin DOMAIN map_)
    /\ [][(call'.op = "operator<<" /\ EmptyKeyLine(call'.arg))
            => map_' = map_]_vars

\* C16 witness: a line with only whitespace before its '=' was appended to a
\* store that has entries.
C16_Witness ==
    /\ call.op = "operator<<" /\ EmptyKeyLine(call.arg)
    /\ BeforeEq(call.arg) # <<>>
    /\ map_ # <<>> /\ <<>> \notin DOMAIN map_

\* the number of characters ch in s
RECURSIVE Count(_, _)
Count(s, ch) ==
    IF s = <<>> THEN 0
    ELSE (IF s[1] = ch THEN 1 ELSE 0) + Count(Tail(s), ch)

\* C17: an append of a line with several '=' and a key before the first one
\* sets one entry and no other: its key is, up to surrounding whitespace,
\* the text before the first '=' and has no '='; its value is, up to
\* surrounding whitespace, all the text after the first '=', every later
\* '=' included.
C17_SplitAtFirst ==
    [][(call'.op = "operator<<" /\ ValidLine(call'.arg)
          /\ Count(call'.arg, "=") >= 2)
         => \E k \in DOMAIN map_' :
               /\ map_' = Put(map_, k, map_'[k])
               /\ Strip(k) = Strip(BeforeEq(call'.arg))
               /\ ~HasChar(k, "=")
               /\ Strip(map_'[k]) = Strip(AfterEq(call'.arg))
               /\ Count(map_'[k], "=") = Count(call'.arg, "=") - 1]_vars

\* C17 witness: the line `x = a=b=c` was appended and the store maps x to
\* a=b=c.
C17_Witness ==
    /\ call.op = "operator<<" /\ Count(call.arg, "=") = 3
    /\ <<"x">> \in DOMAIN map_
    /\ map_[<<"x">>] = <<"a", "=", "b", "=", "c">>

-----------------------------------------------------------------------------
(* Claims about one interpolation pass, checked under SpecInterp on reads  *)
(* at recursion level 1 of a raw value with a '$', which are one pass      *)

\* the last call was a get_cstr that ran exactly one pass over the raw value
OnePassRead == ReadPresent /\ recursion_level_ = 1 /\ HasChar(Raw, "$")

\* C18: the output of one pass has, for every backslash of the input that
\* is followed by a character, that backslash followed by that character.
C18_BackslashKept ==
    OnePassRead =>
        /\ ret.kind = "cstr"
        /\ \A i \in 1..(Len(Raw) - 1) :
              Raw[i] = "\\" => HasSub(ret.val, <<"\\", Raw[i + 1]>>)

\* s is two adjacent bare references, $name$name
TwoAdjacentRefs(s) ==
    /\ Len(s) >= 4 /\ s[1] = "$" /\ IdentRun(s, 2) >= 1
    /\ charAt(s, 1 + IdentRun(s, 2)) = "$"
    /\ IdentRun(s, 3 + IdentRun(s, 2)) >= 1
    /\ 2 + IdentRun(s, 2) + IdentRun(s, 3 + IdentRun(s, 2)) = Len(s)

\* C19: one pass over two adjacent bare references to keys of the store
\* outputs the raw value of the first followed by the raw value of the
\* second.
C19_AdjacentRefs ==
    (OnePassRead /\ TwoAdjacentRefs(Raw)
       /\ NameAt(Raw, 1) \in DOMAIN map_
       /\ NameAt(Raw, 2 + IdentRun(Raw, 2)) \in DOMAIN map_)
    => ret = StrVal(map_[NameAt(Raw, 1)]
                    \o map_[NameAt(Raw, 2 + IdentRun(Raw, 2))])

\* s is ${name}X with X literal text (no '$', no backslash) that starts with
\* an identifier character
BraceThenText(s) ==
    /\ Len(s) >= 5 /\ s[1] = "$" /\ s[2] = "{"
    /\ IdentRun(s, 3) >= 1
    /\ charAt(s, 2 + IdentRun(s, 3)) = "}"
    /\ check_identifier(charAt(s, 3 + IdentRun(s, 3)))
    /\ \A i \in (4 + IdentRun(s, 3))..Len(s) : s[i] \notin {"$", "\\"}

\* the name between the braces, and the text after the closing brace
BraceName(s) == SubSeq(s, 3, 2 + IdentRun(s, 3))

BraceRest(s) == SubSeq(s, 4 + IdentRun(s, 3), Len(s))

BraceThenBare(s) ==
    /\ Len(s) >= 7 /\ s[1] = "$" /\ s[2] = "{" /\ IdentRun(s, 3) >= 1
    /\ charAt(s, 2 + IdentRun(s, 3)) = "}"
    /\ \E j \in (4 + IdentRun(s, 3))..(Len(s) - 2) :
          /\ s[j] = "$" /\ IdentRun(s, j + 1) = Len(s) - j - 1
          /\ s[Len(s)] = "}"
          /\ \A i \in (4 + IdentRun(s, 3))..(j - 1) :
                s[i] \notin {"$", "\\", "}"}

\* the position of the '$' of the bare reference of such an s
BarePos(s) ==
    CHOOSE j \in (4 + IdentRun(s, 3))..(Len(s) - 2) : s[j] = "$"

\* the raw value of key k, nothing when k is not in m
RawOrNothing(m, k) == IF k \in DOMAIN m THEN m[k] ELSE <<>>

\* C21: one pass over a brace reference followed by literal text and a bare
\* reference ended by '}' outputs the raw value of the first key, the text,
\* the raw value of the second key and that '}': the brace that ends a bare
\* reference is copied, brace mode being that of the first reference alone.
C21_BraceModePerReference ==
    (OnePassRead /\ BraceThenBare(Raw)
       /\ BraceName(Raw) \in DOMAIN map_
       /\ NameAt(Raw, BarePos(Raw)) \in DOMAIN map_)
    => ret = StrVal(map_[BraceName(Raw)]
                    \o SubSeq(Raw, 4 + IdentRun(Raw, 3), BarePos(Raw) - 1)
                    \o map_[NameAt(Raw, BarePos(Raw))]
                    \o <<"}">>)

\* s has one '$' and no backslash, and the '$' is followed by a character
\* that is neither an identifier character nor '{'
EmptyRef(s) ==
    /\ Count(s, "$") = 1 /\ ~HasChar(s, "\\")
    /\ FirstOf(s, "$") < Len(s)
    /\ ~check_identifier(s[FirstOf(s, "$") + 1])
    /\ s[FirstOf(s, "$") + 1] # "{"

\* C22: one pass over a string whose only '$' is followed by a character
\* that is neither an identifier character nor '{' substitutes nothing and
\* copies every character but the '$': the character after the '$' and
\* the identifier characters after it come out as literal text.
C22_EmptyIdentifier ==
    (OnePassRead /\ EmptyRef(Raw))
    => ret = StrVal(SubSeq(Raw, 1, FirstOf(Raw, "$") - 1)
                    \o SubSeq(Raw, FirstOf(Raw, "$") + 1, Len(Raw)))

-----------------------------------------------------------------------------
(* Claims about termination and about passes over resolved text, checked   *)
(* under SpecInterp                                                        *)

\* from the scan state st on, the scan of str ends, and until it ends the
\* position after two iterations is beyond the position before them
RECURSIVE ScanAdvances(_, _, _)
ScanAdvances(m, str, st) ==
    \/ st.done
    \/ LET s1 == ps_step(m, str, st)
       IN  /\ s1.done \/ ps_step(m, str, s1).done
                      \/ ps_step(m, str, s1).pch > st.pch
           /\ ScanAdvances(m, str, s1)

\* each of the n passes that start from s ends within two iterations per
\* character of its input, the terminating '\0' counted
RECURSIVE PassesEnd(_, _, _)
PassesEnd(m, n, s) ==
    \/ n = 0
    \/ /\ ScanAdvances(m, s, ps_init)
       /\ ps_run(m, s, ps_init).done
       /\ ps_run(m, s, ps_init).iter <= 2 * (Len(s) + 1)
       /\ PassesEnd(m, n - 1, parse_once(m, s))

\* C23: every pass of a read ends, its scan position advancing over every
\* two iterations, and a read makes at most recursion_level_ passes and
\* returns a string, whatever the store, cyclic references included.
C23_Termination ==
    ReadPresent =>
        /\ parse_recursive(map_, recursion_level_, Raw).passes
             <= recursion_level_
        /\ PassesEnd(map_, parse_recursive(map_, recursion_level_, Raw).passes,
                     Raw)
        /\ ret.kind = "cstr"

\* C23 witness: a key of a two-key cycle, a = $b and b = $a, was read at a
\* level of 2 or more, and a string that still has a reference came back.
C23_Witness ==
    /\ ReadPresent /\ recursion_level_ >= 2
    /\ IsBareRef(Raw) /\ Tail(Raw) \in DOMAIN map_
    /\ IsBareRef(map_[Tail(Raw)]) /\ Tail(map_[Tail(Raw)]) = call.arg
    /\ Tail(Raw) # call.arg
    /\ ret.kind = "cstr" /\ HasChar(ret.val, "$")

\* s has neither '$' nor backslash
Plain(s) == ~HasChar(s, "$") /\ ~HasChar(s, "\\")

\* C24: a pass is the identity on a string with neither '$' nor backslash
\* (here every such stored value and every such string returned), and once
\* the result of some pass of a read has neither, the string returned is
\* that result, whatever the number of passes still run.
C24_PlainFixed ==
    ReadPresent =>
        /\ \A k \in DOMAIN map_ :
              Plain(map_[k]) => parse_once(map_, map_[k]) = map_[k]
        /\ Plain(ret.val) => parse_once(map_, ret.val) = ret.val
        /\ \A n \in 0..parse_recursive(map_, recursion_level_, Raw).passes :
              Plain(Passes(map_, n, Raw))
                => ret = StrVal(Passes(map_, n, Raw))

\* C24 witness: the first pass of a read gave the raw value of another key,
\* a string with braces and neither '$' nor backslash, later passes ran, and
\* that string came back.
C24_Witness ==
    /\ ReadPresent /\ recursion_level_ >= 2 /\ IsBareRef(Raw)
    /\ Tail(Raw) \in DOMAIN map_ /\ Plain(map_[Tail(Raw)])
    /\ HasChar(map_[Tail(Raw)], "{") /\ HasChar(map_[Tail(Raw)], "}")
    /\ ret = StrVal(map_[Tail(Raw)])

-----------------------------------------------------------------------------
(* A claim about file loads, checked under Spec                            *)

\* the text after the last newline of a text
RECURSIVE LastSegment(_)
LastSegment(text) ==
    IF ~HasChar(text, "\n") THEN text
    ELSE LastSegment(SubSeq(text, FirstOf(text, "\n") + 1, Len(text)))

\* the lines of a source: those ended by a newline and, when the source
\* does not end with one, the line after the last newline
SourceLines(text) ==
    TextLines(text)
    \o (IF LastSegment(text) # <<>> THEN <<LastSegment(text)>> ELSE <<>>)

\* a line that is not empty after trimming and whose first character then
\* is not '#'
Eligible(line) == Strip(line) # <<>> /\ Strip(line)[1] # "#"

\* the store after the eligible lines of ls are inserted in order into m
RECURSIVE Ingest(_, _)
Ingest(m, ls) ==
    IF ls = <<>> THEN m
    ELSE Ingest(IF Eligible(ls[1]) THEN insert(m, trim(ls[1])) ELSE m,
                Tail(ls))

\* C25: a file load gives the store that inserting every eligible line of
\* the file in order gives, the last line included when no newline ends it.
C25_EveryLineLoaded ==
    [][(call'.op = "read_from_file" /\ ret'.kind # "runtime_error")
         => map_' = Ingest(map_, SourceLines(call'.arg))]_vars

====
